---- MODULE Spec2Model ----
(***************************************************************************)
(* Model of the longitudinal MRI training script                           *)
(* src/reference_papers/spie_paper/train_wgan.py (checkpoint restore, the  *)
(* epoch loop of fit, the top-level try/except) and of the loss functions  *)
(* of src/model/losses.py.                                                 *)
(*                                                                         *)
(* The training script is modelled as a sequence of process runs over one  *)
(* persistent experiment folder (checkpoint directory, logs.txt, summary   *)
(* stream).  Names the script reads but does not define (encoder, decoder, *)
(* train_ds, val_ds, INPUT_HEIGHT, CLIP_BY_NORM, ...) are taken as bound   *)
(* by the environment; a failure to resolve them is one of the exceptions  *)
(* the action Raise covers.                                                *)
(*                                                                         *)
(* Tensor arithmetic is modelled over exact rationals <<n, d>> (d > 0),    *)
(* with d = 0 for the non-finite results of a division by zero.            *)
(***************************************************************************)
EXTENDS Integers, Sequences, FiniteSets, TLC

\* ------------------------------------------------------------------ bounds
\* EPOCHS is 2000 in the script; the model runs a short experiment.
EPOCHS == 7
MaxRuns == 2
NumTrainBatches == 2
NumValBatches == 1
\* examples per batch in the tensor computations
BatchSize == 2

\* ------------------------------------------------------- program constants
CHECKPOINT_SAVE_INTERVAL == 5
MAX_TO_KEEP == 5
RESTORE_FROM_CHECKPOINT == TRUE

VARIABLES
    pc,             \* position of the running process in the script
    run,            \* number of the current process run (1..MaxRuns)
    ckptEpoch,      \* checkpoint.epoch, the in-memory epoch counter
    params,         \* generator weights: <<run that initialised them, updates applied>>
    store,          \* checkpoint directory: sequence of snapshots, latest last
    initial_epoch,  \* module-level initial_epoch
    epoch,          \* loop variable of fit
    batch,          \* batches consumed by the current train / eval pass
    ended,          \* how the current run left the try block
    logLines,       \* number of lines appended to logs.txt
    epochLog,       \* epochLog[N]: "Epoch N completed" lines in logs.txt
    trainSummary,   \* trainSummary[N]: train scalars written with step=N
    valSummary,     \* valSummary[N]: validation scalars written with step=N
    runLogged,      \* epoch indices the current run has logged anything for
    saves,          \* manager.save() calls of the current run, by call site
    saveLogs,       \* "Saved checkpoint ..." lines of the current run, by call site
    restored,       \* what checkpoint.restore found at start-up
    stepsRun,       \* train_step calls of the current run
    completedRun,   \* epochs whose counter assignment ran in the current run
    firstEpoch,     \* first epoch index executed by fit in the current run (-1: none)
    prev,           \* how the previous run ended and its counter at that moment
    allInterrupted, \* every earlier run ended in the KeyboardInterrupt handler
    atEnd,          \* where and in what state the try body was left abnormally
    evalsRun,       \* eval_step calls of the current run
    discUpdates,    \* writes to the discriminator's weights or its optimizer's
                    \* state made by the current process after start-up
    op,             \* loss-function calls: which function has been applied
    args,           \* loss-function calls: the inputs
    result          \* loss-function calls: the value returned

trainVars == <<pc, run, ckptEpoch, params, store, initial_epoch, epoch, batch,
               ended, logLines, epochLog, trainSummary, valSummary, runLogged,
               saves, saveLogs, restored, stepsRun, completedRun, firstEpoch,
               prev, allInterrupted, atEnd, evalsRun, discUpdates>>
pureVars == <<op, args, result>>
vars == <<pc, run, ckptEpoch, params, store, initial_epoch, epoch, batch,
          ended, logLines, epochLog, trainSummary, valSummary, runLogged,
          saves, saveLogs, restored, stepsRun, completedRun, firstEpoch,
          prev, allInterrupted, atEnd, evalsRun, discUpdates, op, args, result>>

\* --------------------------------------------------------------- helpers
Last(s) == s[Len(s)]

MaxOf(S) == CHOOSE m \in S : \A x \in S : x <= m

NoSaves == [periodic |-> 0, final |-> 0, kbd |-> 0]

\* the try body is still running
NotLeft == [pc |-> "", store |-> <<>>, logLines |-> 0]

\* tf.train.Checkpoint(epoch=tf.Variable(0), ...): a fresh process
FreshEpoch == 0
FreshParams(r) == <<r, 0>>

\* manager.latest_checkpoint
latest_checkpoint(st) == IF Len(st) = 0 THEN [found |-> FALSE, epoch |-> FreshEpoch, params |-> <<0, 0>>]
                         ELSE [found |-> TRUE, epoch |-> Last(st).epoch, params |-> Last(st).params]

\* manager.save(): append a snapshot, keep the newest MAX_TO_KEEP
manager_save(st, e, p) ==
    LET all == Append(st, [epoch |-> e, params |-> p])
    IN  IF Len(all) > MAX_TO_KEEP THEN SubSeq(all, Len(all) - MAX_TO_KEEP + 1, Len(all))
        ELSE all

\* encoder(..., training=True) and decoder(..., training=True): the forward
\* pass of the networks returns its outputs and leaves the weights w as they are
forward_pass(w) == w

\* generator_optimizer.apply_gradients: one update of the generator's
\* trainable variables
apply_gradients(w) == <<w[1], w[2] + 1>>

\* variant: resume at the recorded counter itself
InitialEpochOf_NoIncrement(counter) == counter

\* initial_epoch = checkpoint.epoch.numpy() + 1
InitialEpochOf(counter) == counter + 1

\* positions inside the top-level try block
TryPcs == {"preamble", "fit_entry", "epoch_begin", "train_log", "train",
           "train_summary", "val_log", "eval", "val_summary", "epoch_log",
           "assign", "periodic_save", "final_save", "close"}

\* positions inside fit's epoch loop
LoopPcs == {"epoch_begin", "train_log", "train", "train_summary", "val_log",
            "eval", "val_summary", "epoch_log", "assign", "periodic_save"}

PureIdle == op = "idle" /\ args = <<>> /\ result = <<>>

\* ------------------------------------------------------------------ Init
\* Before the first run: empty experiment folder, process about to start.
Init ==
    /\ pc = "restore"
    /\ run = 1
    /\ ckptEpoch = FreshEpoch
    /\ params = FreshParams(1)
    /\ store = <<>>
    /\ initial_epoch = 0
    /\ epoch = 0
    /\ batch = 0
    /\ ended = "running"
    /\ logLines = 0
    /\ epochLog = [n \in 0..EPOCHS |-> 0]
    /\ trainSummary = [n \in 0..EPOCHS |-> 0]
    /\ valSummary = [n \in 0..EPOCHS |-> 0]
    /\ runLogged = {}
    /\ saves = NoSaves
    /\ saveLogs = NoSaves
    /\ restored = [found |-> FALSE, epoch |-> FreshEpoch, params |-> <<0, 0>>]
    /\ stepsRun = 0
    /\ completedRun = {}
    /\ firstEpoch = -1
    /\ prev = [ended |-> "none", counter |-> 0]
    /\ allInterrupted = TRUE
    /\ atEnd = NotLeft
    /\ evalsRun = 0
    /\ discUpdates = 0
    /\ PureIdle

\* --------------------------------------------------------------- actions
\* lines 146-165: build the checkpoint, restore the latest one, log, derive
\* initial_epoch
Restore ==
    /\ pc = "restore"
    /\ LET found == latest_checkpoint(store)
           counter == IF RESTORE_FROM_CHECKPOINT /\ found.found THEN found.epoch ELSE FreshEpoch
       IN  /\ restored' = IF RESTORE_FROM_CHECKPOINT THEN found
                          ELSE [found |-> FALSE, epoch |-> FreshEpoch, params |-> <<0, 0>>]
           /\ ckptEpoch' = counter
           /\ params' = IF RESTORE_FROM_CHECKPOINT /\ found.found THEN found.params
                        ELSE FreshParams(run)
           /\ initial_epoch' = InitialEpochOf(counter)
    /\ logLines' = logLines + 1
    /\ pc' = "preamble"
    /\ UNCHANGED <<run, store, epoch, batch, ended, epochLog, trainSummary,
                   valSummary, runLogged, saves, saveLogs, stepsRun,
                   completedRun, firstEpoch, prev, allInterrupted, atEnd,
                   evalsRun, discUpdates>>
    /\ UNCHANGED pureVars

\* lines 389-420: the parameter dump and the image datasets
Preamble ==
    /\ pc = "preamble"
    /\ logLines' = logLines + 18
    /\ pc' = "fit_entry"
    /\ UNCHANGED <<run, ckptEpoch, params, store, initial_epoch, epoch, batch,
                   ended, epochLog, trainSummary, valSummary, runLogged, saves,
                   saveLogs, restored, stepsRun, completedRun, firstEpoch, prev,
                   allInterrupted, atEnd, evalsRun, discUpdates>>
    /\ UNCHANGED pureVars

\* variant: no assertion; an empty range lets fit return at once
FitEntry_NoAssert ==
    /\ pc = "fit_entry"
    /\ IF initial_epoch < EPOCHS
       THEN /\ epoch' = initial_epoch
            /\ pc' = "epoch_begin"
       ELSE /\ epoch' = epoch
            /\ pc' = "final_save"
    /\ UNCHANGED <<run, ckptEpoch, params, store, initial_epoch, batch,
                   logLines, epochLog, trainSummary, valSummary, runLogged,
                   saves, saveLogs, restored, stepsRun, completedRun,
                   firstEpoch, prev, allInterrupted, evalsRun, discUpdates,
                   ended, atEnd>>
    /\ UNCHANGED pureVars

\* lines 289-292: assert initial_epoch < num_epochs, then enter the loop
FitEntry ==
    /\ pc = "fit_entry"
    /\ IF initial_epoch < EPOCHS
       THEN /\ epoch' = initial_epoch
            /\ pc' = "epoch_begin"
            /\ ended' = ended
            /\ atEnd' = atEnd
       ELSE /\ epoch' = epoch
            /\ pc' = "bare_handler"
            /\ ended' = "exception"
            /\ atEnd' = [pc |-> pc, store |-> store, logLines |-> logLines]
    /\ UNCHANGED <<run, ckptEpoch, params, store, initial_epoch, batch,
                   logLines, epochLog, trainSummary, valSummary, runLogged,
                   saves, saveLogs, restored, stepsRun, completedRun,
                   firstEpoch, prev, allInterrupted, evalsRun, discUpdates>>
    /\ UNCHANGED pureVars

\* lines 293-314: sample figures for this epoch (no weight update)
EpochBegin ==
    /\ pc = "epoch_begin"
    /\ firstEpoch' = IF firstEpoch = -1 THEN epoch ELSE firstEpoch
    /\ params' = forward_pass(params)
    /\ pc' = "train_log"
    /\ UNCHANGED <<run, ckptEpoch, store, initial_epoch, epoch, batch,
                   ended, logLines, epochLog, trainSummary, valSummary,
                   runLogged, saves, saveLogs, restored, stepsRun,
                   completedRun, prev, allInterrupted, atEnd,
                   evalsRun, discUpdates>>
    /\ UNCHANGED pureVars

\* lines 317-318: "Training epoch N"
TrainLog ==
    /\ pc = "train_log"
    /\ logLines' = logLines + 1
    /\ runLogged' = runLogged \cup {epoch}
    /\ batch' = 0
    /\ pc' = "train"
    /\ UNCHANGED <<run, ckptEpoch, params, store, initial_epoch, epoch, ended,
                   epochLog, trainSummary, valSummary, saves, saveLogs,
                   restored, stepsRun, completedRun, firstEpoch, prev,
                   allInterrupted, atEnd, evalsRun, discUpdates>>
    /\ UNCHANGED pureVars

\* lines 319-331 with 208-245: one batch of the train pass; the optimizer
\* applies the generator gradients
TrainStep ==
    /\ pc = "train"
    /\ batch < NumTrainBatches
    /\ params' = apply_gradients(forward_pass(params))
    /\ stepsRun' = stepsRun + 1
    /\ batch' = batch + 1
    /\ UNCHANGED <<pc, run, ckptEpoch, store, initial_epoch, epoch, ended,
                   logLines, epochLog, trainSummary, valSummary, runLogged,
                   saves, saveLogs, restored, completedRun, firstEpoch, prev,
                   allInterrupted, atEnd, evalsRun, discUpdates>>
    /\ UNCHANGED pureVars

\* variant: the train pass is left after its first batch
TrainPassEnd_Early ==
    /\ pc = "train"
    /\ batch >= 1
    /\ pc' = "train_summary"
    /\ UNCHANGED <<run, ckptEpoch, params, store, initial_epoch, epoch, batch,
                   ended, logLines, epochLog, trainSummary, valSummary,
                   runLogged, saves, saveLogs, restored, stepsRun,
                   completedRun, firstEpoch, prev, allInterrupted, atEnd,
                   evalsRun, discUpdates>>
    /\ UNCHANGED pureVars

\* line 319: the train dataset is exhausted
TrainPassEnd ==
    /\ pc = "train"
    /\ batch = NumTrainBatches
    /\ pc' = "train_summary"
    /\ UNCHANGED <<run, ckptEpoch, params, store, initial_epoch, epoch, batch,
                   ended, logLines, epochLog, trainSummary, valSummary,
                   runLogged, saves, saveLogs, restored, stepsRun,
                   completedRun, firstEpoch, prev, allInterrupted, atEnd,
                   evalsRun, discUpdates>>
    /\ UNCHANGED pureVars

\* lines 332-338: mean train losses written as scalars with step=epoch
TrainSummary ==
    /\ pc = "train_summary"
    /\ trainSummary' = [trainSummary EXCEPT ![epoch] = @ + 1]
    /\ runLogged' = runLogged \cup {epoch}
    /\ pc' = "val_log"
    /\ UNCHANGED <<run, ckptEpoch, params, store, initial_epoch, epoch, batch,
                   ended, logLines, epochLog, valSummary, saves, saveLogs,
                   restored, stepsRun, completedRun, firstEpoch, prev,
                   allInterrupted, atEnd, evalsRun, discUpdates>>
    /\ UNCHANGED pureVars

\* lines 341-342: "Calculating validation losses..."
ValLog ==
    /\ pc = "val_log"
    /\ logLines' = logLines + 1
    /\ batch' = 0
    /\ pc' = "eval"
    /\ UNCHANGED <<run, ckptEpoch, params, store, initial_epoch, epoch, ended,
                   epochLog, trainSummary, valSummary, runLogged, saves,
                   saveLogs, restored, stepsRun, completedRun, firstEpoch,
                   prev, allInterrupted, atEnd, evalsRun, discUpdates>>
    /\ UNCHANGED pureVars

\* variant: the eval pass applies the gradients as the train pass does
EvalStep_Updating ==
    /\ pc = "eval"
    /\ batch < NumValBatches
    /\ params' = apply_gradients(forward_pass(params))
    /\ evalsRun' = evalsRun + 1
    /\ batch' = batch + 1
    /\ UNCHANGED <<pc, run, ckptEpoch, store, initial_epoch, epoch,
                   ended, logLines, epochLog, trainSummary, valSummary,
                   runLogged, saves, saveLogs, restored, stepsRun,
                   completedRun, firstEpoch, prev, allInterrupted, atEnd,
                   discUpdates>>
    /\ UNCHANGED pureVars

\* lines 343-355 with 247-261: one batch of the eval pass; no optimizer call
EvalStep ==
    /\ pc = "eval"
    /\ batch < NumValBatches
    /\ params' = forward_pass(params)
    /\ evalsRun' = evalsRun + 1
    /\ batch' = batch + 1
    /\ UNCHANGED <<pc, run, ckptEpoch, store, initial_epoch, epoch,
                   ended, logLines, epochLog, trainSummary, valSummary,
                   runLogged, saves, saveLogs, restored, stepsRun,
                   completedRun, firstEpoch, prev, allInterrupted, atEnd,
                   discUpdates>>
    /\ UNCHANGED pureVars

\* line 343: the validation dataset is exhausted
EvalPassEnd ==
    /\ pc = "eval"
    /\ batch = NumValBatches
    /\ pc' = "val_summary"
    /\ UNCHANGED <<run, ckptEpoch, params, store, initial_epoch, epoch, batch,
                   ended, logLines, epochLog, trainSummary, valSummary,
                   runLogged, saves, saveLogs, restored, stepsRun,
                   completedRun, firstEpoch, prev, allInterrupted, atEnd,
                   evalsRun, discUpdates>>
    /\ UNCHANGED pureVars

\* lines 356-362: mean validation losses written as scalars with step=epoch
ValSummary ==
    /\ pc = "val_summary"
    /\ valSummary' = [valSummary EXCEPT ![epoch] = @ + 1]
    /\ runLogged' = runLogged \cup {epoch}
    /\ pc' = "epoch_log"
    /\ UNCHANGED <<run, ckptEpoch, params, store, initial_epoch, epoch, batch,
                   ended, logLines, epochLog, trainSummary, saves, saveLogs,
                   restored, stepsRun, completedRun, firstEpoch, prev,
                   allInterrupted, atEnd, evalsRun, discUpdates>>
    /\ UNCHANGED pureVars

\* lines 364-377: "Epoch N completed in ..." and the eight loss lines
EpochLog ==
    /\ pc = "epoch_log"
    /\ epochLog' = [epochLog EXCEPT ![epoch] = @ + 1]
    /\ runLogged' = runLogged \cup {epoch}
    /\ logLines' = logLines + 9
    /\ pc' = "assign"
    /\ UNCHANGED <<run, ckptEpoch, params, store, initial_epoch, epoch, batch,
                   ended, trainSummary, valSummary, saves, saveLogs, restored,
                   stepsRun, completedRun, firstEpoch, prev, allInterrupted, atEnd,
                   evalsRun, discUpdates>>
    /\ UNCHANGED pureVars

\* variant: the counter records the epoch about to start
AssignEpoch_Next ==
    /\ pc = "assign"
    /\ ckptEpoch' = epoch + 1
    /\ completedRun' = completedRun \cup {epoch}
    /\ pc' = "periodic_save"
    /\ UNCHANGED <<run, params, store, initial_epoch, epoch, batch, ended,
                   logLines, epochLog, trainSummary, valSummary, runLogged,
                   saves, saveLogs, restored, stepsRun, firstEpoch, prev,
                   allInterrupted, atEnd, evalsRun, discUpdates>>
    /\ UNCHANGED pureVars

\* line 379: checkpoint.epoch.assign(epoch)
AssignEpoch ==
    /\ pc = "assign"
    /\ ckptEpoch' = epoch
    /\ completedRun' = completedRun \cup {epoch}
    /\ pc' = "periodic_save"
    /\ UNCHANGED <<run, params, store, initial_epoch, epoch, batch, ended,
                   logLines, epochLog, trainSummary, valSummary, runLogged,
                   saves, saveLogs, restored, stepsRun, firstEpoch, prev,
                   allInterrupted, atEnd, evalsRun, discUpdates>>
    /\ UNCHANGED pureVars

\* variant: a snapshot after every epoch
PeriodicSave_EveryEpoch ==
    /\ pc = "periodic_save"
    /\ store' = manager_save(store, ckptEpoch, params)
    /\ saves' = [saves EXCEPT !.periodic = @ + 1]
    /\ saveLogs' = [saveLogs EXCEPT !.periodic = @ + 1]
    /\ logLines' = logLines + 1
    /\ IF epoch + 1 < EPOCHS
       THEN epoch' = epoch + 1 /\ pc' = "epoch_begin"
       ELSE epoch' = epoch /\ pc' = "final_save"
    /\ UNCHANGED <<run, ckptEpoch, params, initial_epoch, batch, ended,
                   epochLog, trainSummary, valSummary, runLogged, restored,
                   stepsRun, completedRun, firstEpoch, prev, allInterrupted, atEnd,
                   evalsRun, discUpdates>>
    /\ UNCHANGED pureVars

\* lines 380-386 and the loop header 292: periodic snapshot, then the next
\* epoch or the return from fit
PeriodicSave ==
    /\ pc = "periodic_save"
    /\ IF ckptEpoch % CHECKPOINT_SAVE_INTERVAL = 0
       THEN /\ store' = manager_save(store, ckptEpoch, params)
            /\ saves' = [saves EXCEPT !.periodic = @ + 1]
            /\ saveLogs' = [saveLogs EXCEPT !.periodic = @ + 1]
            /\ logLines' = logLines + 1
       ELSE UNCHANGED <<store, saves, saveLogs, logLines>>
    /\ IF epoch + 1 < EPOCHS
       THEN epoch' = epoch + 1 /\ pc' = "epoch_begin"
       ELSE epoch' = epoch /\ pc' = "final_save"
    /\ UNCHANGED <<run, ckptEpoch, params, initial_epoch, batch, ended,
                   epochLog, trainSummary, valSummary, runLogged, restored,
                   stepsRun, completedRun, firstEpoch, prev, allInterrupted, atEnd,
                   evalsRun, discUpdates>>
    /\ UNCHANGED pureVars

\* lines 439-443: save last checkpoint after fit returned, and log it
FinalSave ==
    /\ pc = "final_save"
    /\ store' = manager_save(store, ckptEpoch, params)
    /\ saves' = [saves EXCEPT !.final = @ + 1]
    /\ saveLogs' = [saveLogs EXCEPT !.final = @ + 1]
    /\ logLines' = logLines + 1
    /\ pc' = "close"
    /\ UNCHANGED <<run, ckptEpoch, params, initial_epoch, epoch, batch, ended,
                   epochLog, trainSummary, valSummary, runLogged, restored,
                   stepsRun, completedRun, firstEpoch, prev, allInterrupted, atEnd,
                   evalsRun, discUpdates>>
    /\ UNCHANGED pureVars

\* line 444: summary_writer.close() at the end of the try body
Close ==
    /\ pc = "close"
    /\ ended' = "completed"
    /\ pc' = "done"
    /\ UNCHANGED <<run, ckptEpoch, params, store, initial_epoch, epoch, batch,
                   logLines, epochLog, trainSummary, valSummary, runLogged,
                   saves, saveLogs, restored, stepsRun, completedRun,
                   firstEpoch, prev, allInterrupted, atEnd,
                   evalsRun, discUpdates>>
    /\ UNCHANGED pureVars

\* a KeyboardInterrupt arrives while the try body runs (line 445)
Interrupt ==
    /\ pc \in TryPcs
    /\ ended' = "interrupted"
    /\ atEnd' = [pc |-> pc, store |-> store, logLines |-> logLines]
    /\ pc' = "kbd_handler"
    /\ UNCHANGED <<run, ckptEpoch, params, store, initial_epoch, epoch, batch,
                   logLines, epochLog, trainSummary, valSummary, runLogged,
                   saves, saveLogs, restored, stepsRun, completedRun,
                   firstEpoch, prev, allInterrupted, evalsRun, discUpdates>>
    /\ UNCHANGED pureVars

\* any other exception is raised while the try body runs (line 455)
Raise ==
    /\ pc \in TryPcs
    /\ ended' = "exception"
    /\ atEnd' = [pc |-> pc, store |-> store, logLines |-> logLines]
    /\ pc' = "bare_handler"
    /\ UNCHANGED <<run, ckptEpoch, params, store, initial_epoch, epoch, batch,
                   logLines, epochLog, trainSummary, valSummary, runLogged,
                   saves, saveLogs, restored, stepsRun, completedRun,
                   firstEpoch, prev, allInterrupted, evalsRun, discUpdates>>
    /\ UNCHANGED pureVars

\* variant: the handler saves but does not log the save
KeyboardInterruptHandler_NoLog ==
    /\ pc = "kbd_handler"
    /\ store' = manager_save(store, ckptEpoch, params)
    /\ saves' = [saves EXCEPT !.kbd = @ + 1]
    /\ logLines' = logLines + 1
    /\ pc' = "done"
    /\ UNCHANGED <<run, ckptEpoch, params, initial_epoch, epoch, batch, ended,
                   epochLog, trainSummary, valSummary, runLogged, restored,
                   stepsRun, completedRun, firstEpoch, prev, allInterrupted,
                   atEnd, saveLogs, evalsRun, discUpdates>>
    /\ UNCHANGED pureVars

\* variant: the handler saves the weights as they were when the interrupted
\* pass began
KeyboardInterruptHandler_Rollback ==
    /\ pc = "kbd_handler"
    /\ store' = manager_save(store, ckptEpoch,
                             <<params[1], params[2] - (stepsRun % NumTrainBatches)>>)
    /\ saves' = [saves EXCEPT !.kbd = @ + 1]
    /\ saveLogs' = [saveLogs EXCEPT !.kbd = @ + 1]
    /\ logLines' = logLines + 2
    /\ pc' = "done"
    /\ UNCHANGED <<run, ckptEpoch, params, initial_epoch, epoch, batch, ended,
                   epochLog, trainSummary, valSummary, runLogged, restored,
                   stepsRun, completedRun, firstEpoch, prev, allInterrupted,
                   atEnd, evalsRun, discUpdates>>
    /\ UNCHANGED pureVars

\* lines 445-454: except KeyboardInterrupt: log, save, log, close
KeyboardInterruptHandler ==
    /\ pc = "kbd_handler"
    /\ store' = manager_save(store, ckptEpoch, params)
    /\ saves' = [saves EXCEPT !.kbd = @ + 1]
    /\ saveLogs' = [saveLogs EXCEPT !.kbd = @ + 1]
    /\ logLines' = logLines + 2
    /\ pc' = "done"
    /\ UNCHANGED <<run, ckptEpoch, params, initial_epoch, epoch, batch, ended,
                   epochLog, trainSummary, valSummary, runLogged, restored,
                   stepsRun, completedRun, firstEpoch, prev, allInterrupted, atEnd,
                   evalsRun, discUpdates>>
    /\ UNCHANGED pureVars

\* variant: the bare handler makes a last snapshot and logs it
BareHandler_Saving ==
    /\ pc = "bare_handler"
    /\ store' = manager_save(store, ckptEpoch, params)
    /\ logLines' = logLines + 1
    /\ pc' = "done"
    /\ UNCHANGED <<run, ckptEpoch, params, initial_epoch, epoch, batch,
                   ended, epochLog, trainSummary, valSummary,
                   runLogged, saves, saveLogs, restored, stepsRun,
                   completedRun, firstEpoch, prev, allInterrupted, atEnd,
                   evalsRun, discUpdates>>
    /\ UNCHANGED pureVars

\* lines 455-456: bare except: summary_writer.close() only
BareHandler ==
    /\ pc = "bare_handler"
    /\ pc' = "done"
    /\ UNCHANGED <<run, ckptEpoch, params, store, initial_epoch, epoch, batch,
                   ended, logLines, epochLog, trainSummary, valSummary,
                   runLogged, saves, saveLogs, restored, stepsRun,
                   completedRun, firstEpoch, prev, allInterrupted, atEnd,
                   evalsRun, discUpdates>>
    /\ UNCHANGED pureVars

\* the script is started again on the same experiment folder: a new process
\* with a fresh checkpoint object; the folder (store, logs, summaries) stays
StartRun ==
    /\ pc = "done"
    /\ run < MaxRuns
    /\ run' = run + 1
    /\ pc' = "restore"
    /\ ckptEpoch' = FreshEpoch
    /\ params' = FreshParams(run + 1)
    /\ initial_epoch' = 0
    /\ epoch' = 0
    /\ batch' = 0
    /\ ended' = "running"
    /\ runLogged' = {}
    /\ saves' = NoSaves
    /\ saveLogs' = NoSaves
    /\ restored' = [found |-> FALSE, epoch |-> FreshEpoch, params |-> <<0, 0>>]
    /\ stepsRun' = 0
    /\ completedRun' = {}
    /\ firstEpoch' = -1
    /\ prev' = [ended |-> ended, counter |-> ckptEpoch]
    /\ allInterrupted' = (allInterrupted /\ ended = "interrupted")
    /\ atEnd' = NotLeft
    /\ evalsRun' = 0
    /\ discUpdates' = 0
    /\ UNCHANGED <<store, logLines, epochLog, trainSummary, valSummary>>
    /\ UNCHANGED pureVars

Next ==
    \/ Restore
    \/ Preamble
    \/ FitEntry
    \/ EpochBegin
    \/ TrainLog
    \/ TrainStep
    \/ TrainPassEnd
    \/ TrainSummary
    \/ ValLog
    \/ EvalStep
    \/ EvalPassEnd
    \/ ValSummary
    \/ EpochLog
    \/ AssignEpoch
    \/ PeriodicSave
    \/ FinalSave
    \/ Close
    \/ Interrupt
    \/ Raise
    \/ KeyboardInterruptHandler
    \/ BareHandler
    \/ StartRun

Spec == Init /\ [][Next]_vars

\* ------------------------------------------------------------------------
\* Properties of the training script
\* ------------------------------------------------------------------------

\* weights the current run started from
BaseParams == IF restored.found THEN restored.params ELSE FreshParams(run)

\* index recorded for the last epoch whose loop body ran to the counter
\* assignment; the restored (or initial) counter when the run completed none
LastCompleted == IF completedRun = {} THEN (IF restored.found THEN restored.epoch ELSE FreshEpoch)
                 ELSE MaxOf(completedRun)

\* C1 (as stated): when every earlier run was ended by a user interrupt, the
\* next run restores the counter the interrupted run held, and no epoch index
\* has its "Epoch N completed" lines or its step=N scalars written twice.
C1_Original ==
    (run > 1 /\ allInterrupted /\ pc # "restore") =>
        /\ restored.epoch = prev.counter
        /\ \A n \in 0..EPOCHS :
               epochLog[n] <= 1 /\ trainSummary[n] <= 1 /\ valSummary[n] <= 1

\* C1 (amended): after a run ended by a user interrupt, the next run restores
\* the counter the interrupted run held, starts fit at that counter plus one,
\* and emits per-epoch logging only for epoch indices above that counter:
\* epochs whose counter assignment had run are never logged again.
C1_ResumeAfterInterrupt ==
    (run > 1 /\ prev.ended = "interrupted" /\ pc # "restore") =>
        /\ restored.found
        /\ restored.epoch = prev.counter
        /\ initial_epoch = prev.counter + 1
        /\ \A n \in runLogged : n > prev.counter

C1_Witness ==
    /\ run > 1
    /\ prev.ended = "interrupted"
    /\ prev.counter >= 1
    /\ prev.counter + 1 \in runLogged
    /\ trainSummary[prev.counter + 1] = 2

\* C2: with no checkpoint at start-up the run reaches the epoch loop and the
\* first epoch fit executes is epoch 0.
C2_FirstEpochZero ==
    (~restored.found /\ firstEpoch # -1) => firstEpoch = 0

\* C3 (as stated): however a run ends, a final save was attempted by then and
\* its "Saved checkpoint" line is in the log.
C3_Original ==
    pc = "done" =>
        /\ saves.final + saves.kbd >= 1
        /\ saveLogs.final + saveLogs.kbd >= 1

\* C3 (amended): a run that completes all epochs makes one final save and
\* logs it; a run ended by a user interrupt makes one save in the handler and
\* logs it; a run ended by any other exception raised before the final save
\* makes no final save and logs none.
C3_FinalSave ==
    pc = "done" =>
        /\ ended = "completed" => (saves.final = 1 /\ saveLogs.final = 1)
        /\ ended = "interrupted" => (saves.kbd = 1 /\ saveLogs.kbd = 1)
        /\ (ended = "exception" /\ atEnd.pc # "close") =>
               /\ saves.final = 0 /\ saves.kbd = 0
               /\ saveLogs.final = 0 /\ saveLogs.kbd = 0

C3_Witness ==
    /\ pc = "done"
    /\ ended = "exception"
    /\ atEnd.pc \in LoopPcs
    /\ stepsRun > 0
    /\ saves.final = 0

\* C4: an exception other than KeyboardInterrupt raised in the try block ends
\* in the bare handler, which saves no checkpoint, writes no log line and
\* lets the process end normally: the checkpoint store and the log are as
\* they were when the exception was raised.
C4_BareHandlerOnlyCloses ==
    ended = "exception" =>
        /\ pc \in {"bare_handler", "done"}
        /\ store = atEnd.store
        /\ logLines = atEnd.logLines
        /\ saves.kbd = 0

C4_Witness ==
    /\ pc = "done"
    /\ ended = "exception"
    /\ atEnd.pc = "train"
    /\ batch = 1
    /\ Len(store) >= 1

Finished(e) == trainSummary[e] >= 1 /\ valSummary[e] >= 1 /\ epochLog[e] >= 1

\* position the current run has reached in the try body, or left it at
Where == IF pc \in TryPcs THEN pc
         ELSE IF ended = "completed" THEN "close"
         ELSE atEnd.pc

\* the run is past the periodic-save statement of epoch e's iteration
PastSave(e) == e < epoch \/ Where \in {"final_save", "close"}

\* C13 (as stated, second half): every snapshot in the checkpoint store
\* records the index of an epoch whose train pass, eval pass and logging
\* have all finished.
C13_Original ==
    \A i \in 1..Len(store) : Finished(store[i].epoch)

\* C13 (amended): once epoch e's logging is done the counter is set to e; the
\* run has made one periodic save for each completed epoch that is a multiple
\* of CHECKPOINT_SAVE_INTERVAL, and none for any other; the periodic snapshot
\* records e and e is finished.  A snapshot in the store records a finished
\* epoch or the initial counter 0.
C13_PeriodicSnapshot ==
    /\ pc = "periodic_save" =>
           (ckptEpoch = epoch /\ epoch \in completedRun /\ Finished(epoch))
    /\ saves.periodic
           = Cardinality({e \in completedRun :
                             e % CHECKPOINT_SAVE_INTERVAL = 0 /\ PastSave(e)})
    /\ \A e \in completedRun :
           (e % CHECKPOINT_SAVE_INTERVAL = 0 /\ PastSave(e) /\ Where \in TryPcs
              /\ e = MaxOf(completedRun) /\ saves.final = 0) =>
               (Last(store).epoch = e /\ Finished(e))
    /\ \A i \in 1..Len(store) :
           store[i].epoch = FreshEpoch \/ Finished(store[i].epoch)

C13_Witness ==
    /\ pc = "epoch_begin"
    /\ epoch = CHECKPOINT_SAVE_INTERVAL + 1
    /\ saves = [periodic |-> 1, final |-> 0, kbd |-> 0]
    /\ completedRun = 1..CHECKPOINT_SAVE_INTERVAL
    /\ Last(store) = [epoch |-> CHECKPOINT_SAVE_INTERVAL, params |-> params]

\* epochs the current run finished before the one it is in
EpochsBefore == epoch - initial_epoch

\* C14: steps happen one at a time; a train_step runs only while no eval_step
\* of its epoch has run; an eval_step runs only after all train_steps of its
\* epoch; the "Epoch N completed" lines and the counter update come only
\* after all train_steps and all eval_steps of the epoch.
C14_Sequential ==
    [][/\ stepsRun' > stepsRun =>
              /\ stepsRun' = stepsRun + 1
              /\ evalsRun' = evalsRun
              /\ pc = "train"
              /\ stepsRun = NumTrainBatches * EpochsBefore + batch
              /\ evalsRun = NumValBatches * EpochsBefore
       /\ evalsRun' > evalsRun =>
              /\ evalsRun' = evalsRun + 1
              /\ stepsRun' = stepsRun
              /\ pc = "eval"
              /\ stepsRun = NumTrainBatches * (EpochsBefore + 1)
              /\ evalsRun = NumValBatches * EpochsBefore + batch
       /\ (epochLog' # epochLog \/ (pc \in LoopPcs /\ ckptEpoch' # ckptEpoch)) =>
              /\ stepsRun' = stepsRun
              /\ evalsRun' = evalsRun
              /\ stepsRun = NumTrainBatches * (EpochsBefore + 1)
              /\ evalsRun = NumValBatches * (EpochsBefore + 1)
      ]_vars

C14_Witness ==
    /\ pc = "periodic_save"
    /\ epoch = initial_epoch + 1
    /\ ckptEpoch = epoch
    /\ stepsRun = 2 * NumTrainBatches
    /\ evalsRun = 2 * NumValBatches
    /\ epochLog[epoch] = 1

RestoredCounter == IF restored.found THEN restored.epoch ELSE FreshEpoch

\* the state part of C18, from the restore onwards
EpochOrderState ==
    pc # "restore" =>
        /\ initial_epoch = RestoredCounter + 1
        /\ firstEpoch \in {-1, initial_epoch}
        /\ pc \in LoopPcs =>
               /\ epoch >= initial_epoch
               /\ epoch <= EPOCHS - 1
               /\ completedRun = initial_epoch..(IF pc = "periodic_save" THEN epoch
                                                 ELSE epoch - 1)
        /\ runLogged \subseteq initial_epoch..(EPOCHS - 1)
        /\ ckptEpoch = (IF completedRun = {} THEN RestoredCounter
                        ELSE MaxOf(completedRun))
        /\ ckptEpoch >= RestoredCounter
        /\ ckptEpoch <= EPOCHS - 1

\* C18: within one run fit executes the epoch indices initial_epoch,
\* initial_epoch + 1, ... in this order, each once; from the restore onwards
\* the counter never decreases, never exceeds EPOCHS - 1, and is the restored
\* (or initial) value until the run completes an epoch and the index of the
\* most recently completed epoch afterwards.
C18_EpochOrder ==
    [][/\ EpochOrderState'
       /\ (pc \in LoopPcs /\ epoch' # epoch) =>
              (pc = "periodic_save" /\ epoch' = epoch + 1 /\ pc' = "epoch_begin"
                 /\ completedRun = initial_epoch..epoch)
       /\ (pc = "fit_entry" /\ pc' = "epoch_begin") => epoch' = initial_epoch
       /\ (pc # "done" /\ pc # "restore") => ckptEpoch' >= ckptEpoch
       /\ pc = "restore" => ckptEpoch' >= ckptEpoch
       /\ (pc # "done" /\ ckptEpoch' # ckptEpoch /\ pc # "restore") =>
              (pc = "assign" /\ ckptEpoch' = epoch /\ ckptEpoch' = ckptEpoch + 1)
      ]_vars

C18_Witness ==
    /\ run = 2
    /\ restored.found
    /\ restored.epoch = 2
    /\ pc = "epoch_begin"
    /\ epoch = 5
    /\ ckptEpoch = 4
    /\ completedRun = {3, 4}
    /\ firstEpoch = 3

\* C19: a run that restored a counter of EPOCHS - 1 or more never enters the
\* epoch loop and never returns from fit: it executes no train_step and no
\* eval_step and keeps the restored weights and counter; unless the user
\* interrupts it, it ends in the bare handler, makes no save and leaves the
\* checkpoint store as it found it.
C19_CompletedExperiment ==
    (pc # "restore" /\ restored.found /\ restored.epoch >= EPOCHS - 1) =>
        /\ initial_epoch >= EPOCHS
        /\ pc \notin LoopPcs \cup {"final_save", "close"}
        /\ stepsRun = 0 /\ evalsRun = 0
        /\ firstEpoch = -1 /\ completedRun = {} /\ runLogged = {}
        /\ params = restored.params
        /\ ckptEpoch = restored.epoch
        /\ saves.periodic = 0 /\ saves.final = 0
        /\ pc = "done" => ended \in {"exception", "interrupted"}
        /\ ended # "interrupted" =>
               /\ saves = NoSaves
               /\ saveLogs = NoSaves
               /\ Last(store) = [epoch |-> restored.epoch, params |-> restored.params]
               /\ pc \in {"bare_handler", "done"} => store = atEnd.store

C19_Witness ==
    /\ run = 2
    /\ prev.ended = "completed"
    /\ restored.found
    /\ restored.epoch = EPOCHS - 1
    /\ pc = "done"
    /\ ended = "exception"
    /\ atEnd.pc = "fit_entry"
    /\ saves = NoSaves
    /\ stepsRun = 0

\* ------------------------------------------------------------------------
\* Tensor arithmetic: scalars are rationals <<n, d>> in lowest terms, d > 0;
\* d = 0 encodes the non-finite floats: <<1, 0>> = +inf, <<-1, 0>> = -inf,
\* <<0, 0>> = NaN.
\* ------------------------------------------------------------------------
RECURSIVE GCD(_, _)
GCD(a, b) == IF b = 0 THEN a ELSE GCD(b, a % b)

Abs(n) == IF n < 0 THEN -n ELSE n

Sign(n) == IF n > 0 THEN 1 ELSE IF n < 0 THEN -1 ELSE 0

Norm(n, d) ==
    IF d = 0 THEN <<Sign(n), 0>>
    ELSE LET g == GCD(Abs(n), Abs(d))
         IN  IF d < 0 THEN <<(-n) \div g, (-d) \div g>> ELSE <<n \div g, d \div g>>

R(n) == <<n, 1>>

IsFinite(a) == a[2] # 0

\* least common multiple of two positive integers
LCM(a, b) == (a \div GCD(a, b)) * b

RAdd(a, b) ==
    IF a[2] = 0 /\ b[2] = 0 THEN (IF a[1] = b[1] THEN a ELSE <<0, 0>>)
    ELSE IF a[2] = 0 THEN a
    ELSE IF b[2] = 0 THEN b
    ELSE LET l == LCM(a[2], b[2])
         IN  Norm(a[1] * (l \div a[2]) + b[1] * (l \div b[2]), l)

RNeg(a) == <<-a[1], a[2]>>

RSub(a, b) == RAdd(a, RNeg(b))

RMul(a, b) == Norm(a[1] * b[1], a[2] * b[2])

\* float division: x / 0 is +-inf, 0 / 0 is NaN
RDiv(a, b) ==
    IF b[2] = 0 THEN (IF a[2] = 0 \/ b[1] = 0 THEN <<0, 0>> ELSE <<0, 1>>)
    ELSE IF a[2] = 0 THEN <<a[1] * (IF b[1] < 0 THEN -1 ELSE 1), 0>>
    ELSE Norm(a[1] * b[2], a[2] * b[1])

\* a <= b on finite values
RLe(a, b) == a[1] * b[2] <= b[1] * a[2]

RECURSIVE RSum(_)
RSum(s) == IF Len(s) = 0 THEN R(0) ELSE RAdd(s[1], RSum(Tail(s)))

\* tf.reduce_mean of a flat list
RMean(s) == RDiv(RSum(s), R(Len(s)))

\* elementwise tensor difference of two [B] vectors
VecSub(x, y) == [i \in 1..Len(x) |-> RSub(x[i], y[i])]

\* ------------------------------------------------------------------------
\* Latent interpolation (train_wgan.py)
\* ------------------------------------------------------------------------

\* variant: the two gaps weight the wrong endpoints
merge_latent_vectors_Swapped(latent0, latent2, a1, a2) ==
    [i \in 1..Len(a1) |->
        [k \in 1..Len(latent0[i]) |->
            RDiv(RAdd(RMul(latent0[i][k], a1[i]), RMul(latent2[i][k], a2[i])),
                 RAdd(a1[i], a2[i]))]]

\* variant: the sum is divided by the second gap alone
merge_latent_vectors_DivByGap(latent0, latent2, a1, a2) ==
    [i \in 1..Len(a1) |->
        [k \in 1..Len(latent0[i]) |->
            RDiv(RAdd(RMul(latent0[i][k], a2[i]), RMul(latent2[i][k], a1[i])),
                 IF a2[i] = R(0) THEN RAdd(a1[i], a2[i]) ELSE a2[i])]]

\* variant: an element whose gaps sum to zero gets latent0 instead of the quotient
merge_latent_vectors_Guarded(latent0, latent2, a1, a2) ==
    [i \in 1..Len(a1) |->
        [k \in 1..Len(latent0[i]) |->
            IF RAdd(a1[i], a2[i]) = R(0) THEN latent0[i][k]
            ELSE RDiv(RAdd(RMul(latent0[i][k], a2[i]), RMul(latent2[i][k], a1[i])),
                      RAdd(a1[i], a2[i]))]]

\* lines 191-199: per batch element i,
\* (latent0[i] * a2[i] + latent2[i] * a1[i]) / (a1[i] + a2[i])
merge_latent_vectors(latent0, latent2, a1, a2) ==
    [i \in 1..Len(a1) |->
        [k \in 1..Len(latent0[i]) |->
            RDiv(RAdd(RMul(latent0[i][k], a2[i]), RMul(latent2[i][k], a1[i])),
                 RAdd(a1[i], a2[i]))]]

\* acquisition days of a triplet: increasing, duplicated and out-of-order
DayTriples == {<<0, 5, 10>>, <<0, 1, 10>>, <<0, 0, 10>>, <<0, 10, 10>>,
               <<5, 5, 5>>, <<0, 3, 4>>, <<10, 0, 5>>, <<0, 5, 0>>}

\* encoder outputs of one scan
LatentVecs == {<<0, 0>>, <<2, -1>>, <<-3, 4>>}

\* encoder outputs of the first and the last scan of one triplet
LatentPairs == {<<u, v>> \in LatentVecs \X LatentVecs :
                   u # v \/ u = <<2, -1>>} \ {<<<<0, 0>>, <<-3, 4>>>>, <<<<2, -1>>, <<0, 0>>>>}

\* one batch element: the days of its three scans, the latents of scans 0 and 2
MergeElements == {[days |-> t, latent0 |-> uv[1], latent2 |-> uv[2]] :
                     t \in DayTriples, uv \in LatentPairs}

RVec(v) == [k \in 1..Len(v) |-> R(v[k])]

\* the batch as train_step sees it: days[j] and the latents are [B, ...] tensors
MergeArgs(elems) ==
    [days |-> [j \in 1..3 |-> [i \in 1..BatchSize |-> R(elems[i].days[j])]],
     latent0 |-> [i \in 1..BatchSize |-> RVec(elems[i].latent0)],
     latent2 |-> [i \in 1..BatchSize |-> RVec(elems[i].latent2)]]

TrainIdle ==
    /\ pc = "idle"
    /\ run = 1
    /\ ckptEpoch = FreshEpoch
    /\ params = FreshParams(1)
    /\ store = <<>>
    /\ initial_epoch = 0
    /\ epoch = 0
    /\ batch = 0
    /\ ended = "running"
    /\ logLines = 0
    /\ epochLog = [n \in 0..EPOCHS |-> 0]
    /\ trainSummary = [n \in 0..EPOCHS |-> 0]
    /\ valSummary = [n \in 0..EPOCHS |-> 0]
    /\ runLogged = {}
    /\ saves = NoSaves
    /\ saveLogs = NoSaves
    /\ restored = [found |-> FALSE, epoch |-> FreshEpoch, params |-> <<0, 0>>]
    /\ stepsRun = 0
    /\ completedRun = {}
    /\ firstEpoch = -1
    /\ prev = [ended |-> "none", counter |-> 0]
    /\ allInterrupted = TRUE
    /\ atEnd = NotLeft
    /\ evalsRun = 0
    /\ discUpdates = 0

InitMerge ==
    /\ TrainIdle
    /\ op = "idle"
    /\ \E elems \in [1..BatchSize -> MergeElements] : args = MergeArgs(elems)
    /\ result = <<>>

\* lines 214-218 of train_step (the same in eval_step and generate_images):
\* the gaps from the days, then the interpolated latent
MergeCall ==
    /\ op = "idle"
    /\ LET a1 == VecSub(args.days[2], args.days[1])
           a2 == VecSub(args.days[3], args.days[2])
       IN  result' = merge_latent_vectors(args.latent0, args.latent2, a1, a2)
    /\ op' = "merged"
    /\ UNCHANGED args
    /\ UNCHANGED trainVars

\* lines 219-220 of train_step (the same in eval_step and generate_images):
\* latents = [latent0, latent_mid, latent2], each handed to the decoder
LatentsStep ==
    /\ op = "merged"
    /\ result' = <<args.latent0, result, args.latent2>>
    /\ op' = "latents"
    /\ UNCHANGED args
    /\ UNCHANGED trainVars

NextMerge ==
    \/ MergeCall
    \/ LatentsStep

SpecMerge == InitMerge /\ [][NextMerge]_vars

\* integer view of the inputs of batch element i
Day(j, i) == args.days[j][i][1]
Gap1(i) == Day(2, i) - Day(1, i)
Gap2(i) == Day(3, i) - Day(2, i)
Lat0(i, k) == args.latent0[i][k][1]
Lat2(i, k) == args.latent2[i][k][1]
MinOf2(x, y) == IF x <= y THEN x ELSE y
MaxOf2(x, y) == IF x <= y THEN y ELSE x

\* C6: for every batch element i whose gaps do not sum to zero, latent_mid[i]
\* is the finite value (latent0[i]*a2[i] + latent2[i]*a1[i]) / (a1[i]+a2[i])
\* of element i's own inputs; days (0,5,10) give the plain average and days
\* (0,1,10) give weights 9/10 and 1/10.
C6_MergeFormula ==
    op = "merged" =>
        \A i \in 1..BatchSize : \A k \in 1..Len(args.latent0[i]) :
            LET mid == result[i][k]
            IN  /\ Gap1(i) + Gap2(i) # 0 =>
                    /\ mid[2] > 0
                    /\ mid[1] * (Gap1(i) + Gap2(i))
                           = mid[2] * (Lat0(i, k) * Gap2(i) + Lat2(i, k) * Gap1(i))
                /\ <<Day(1, i), Day(2, i), Day(3, i)>> = <<0, 5, 10>> =>
                    2 * mid[1] = mid[2] * (Lat0(i, k) + Lat2(i, k))
                /\ <<Day(1, i), Day(2, i), Day(3, i)>> = <<0, 1, 10>> =>
                    10 * mid[1] = mid[2] * (9 * Lat0(i, k) + Lat2(i, k))

C6_Witness ==
    /\ op = "merged"
    /\ <<Day(1, 1), Day(2, 1), Day(3, 1)>> = <<0, 1, 10>>
    /\ <<Day(1, 2), Day(2, 2), Day(3, 2)>> = <<0, 5, 10>>
    /\ Lat0(1, 1) = 2 /\ Lat2(1, 1) = -3
    /\ result[1][1] = <<3, 2>>
    /\ result[2] # result[1]

\* C7: with both gaps positive every coordinate of latent_mid lies between
\* the coordinates of latent0 and latent2; with a1 = 0 < a2 it equals
\* latent0 and with a2 = 0 < a1 it equals latent2.
C7_MergeOnSegment ==
    op = "merged" =>
        \A i \in 1..BatchSize : \A k \in 1..Len(args.latent0[i]) :
            LET mid == result[i][k]
            IN  /\ (Gap1(i) > 0 /\ Gap2(i) > 0) =>
                    /\ mid[2] > 0
                    /\ mid[2] * MinOf2(Lat0(i, k), Lat2(i, k)) <= mid[1]
                    /\ mid[1] <= mid[2] * MaxOf2(Lat0(i, k), Lat2(i, k))
                /\ (Gap1(i) = 0 /\ Gap2(i) > 0) => mid = args.latent0[i][k]
                /\ (Gap2(i) = 0 /\ Gap1(i) > 0) => mid = args.latent2[i][k]

C7_Witness ==
    /\ op = "merged"
    /\ Gap1(1) = 3 /\ Gap2(1) = 1
    /\ Gap1(2) = 0 /\ Gap2(2) = 10
    /\ Lat0(1, 1) # Lat2(1, 1)
    /\ Lat0(2, 1) # Lat2(2, 1)
    /\ result[1][1] # args.latent0[1][1]
    /\ result[1][1] # args.latent2[1][1]
    /\ result[2] = args.latent0[2]

\* C16: no gap is checked before or after the merge: for a batch
\* element whose gaps sum to zero the quotient is the non-finite result of
\* the division by zero (NaN for 0/0, an infinity otherwise), it is what the
\* decoder receives as the middle latent, and the elements with a non-zero
\* gap sum stay finite.
C16_NoGapCheck ==
    /\ op \in {"merged", "latents"} =>
           \A i \in 1..BatchSize : \A k \in 1..Len(args.latent0[i]) :
               LET mid == IF op = "merged" THEN result[i][k] ELSE result[2][i][k]
               IN  IF Gap1(i) + Gap2(i) = 0
                   THEN mid = <<Sign(Lat0(i, k) * Gap2(i) + Lat2(i, k) * Gap1(i)), 0>>
                   ELSE mid[2] > 0
    /\ op = "latents" => (result[1] = args.latent0 /\ result[3] = args.latent2)

C16_Witness ==
    /\ op = "latents"
    /\ <<Day(1, 1), Day(2, 1), Day(3, 1)>> = <<5, 5, 5>>
    /\ <<Day(1, 2), Day(2, 2), Day(3, 2)>> = <<0, 5, 0>>
    /\ Lat0(2, 1) # Lat2(2, 1)
    /\ result[2][1][1] = <<0, 0>>
    /\ result[2][2][1][2] = 0
    /\ result[2][2][1][1] # 0

\* ------------------------------------------------------------------------
\* Loss functions (model/losses.py)
\* ------------------------------------------------------------------------
RECURSIVE Flatten(_)
Flatten(t) == IF Len(t) = 0 THEN <<>> ELSE t[1] \o Flatten(Tail(t))

RSquare(a) == RMul(a, a)

\* floor of the square root of a natural number
ISqrt(n) == CHOOSE r \in 0..n : r * r <= n /\ (r + 1) * (r + 1) > n

\* square root; exact on the squares of rationals
RSqrt(a) == Norm(ISqrt(a[1] * a[2]), a[2])

\* zip(xs, ys): index set of the pairs
ZipLen(xs, ys) == IF Len(xs) <= Len(ys) THEN Len(xs) ELSE Len(ys)

\* the critic has no second input
NoCond == <<>>

\* A critic f: one score per example, affine in the example and in the
\* first feature of the conditioning input, plus a quadratic term in the
\* example's first feature.
Critic(f, x, c) ==
    [b \in 1..Len(x) |->
        RAdd(RAdd(RSum([k \in 1..Len(x[b]) |-> RMul(R(f.w[k]), x[b][k])]),
                  RMul(R(f.q), RSquare(x[b][1]))),
             IF c = NoCond THEN R(0) ELSE RMul(R(f.v), c[b][1]))]

\* tape.gradient(f([x, c]), x): derivative of the scores with respect to x
GradCritic(f, x, c) ==
    [b \in 1..Len(x) |->
        [k \in 1..Len(x[b]) |->
            IF k = 1 THEN RAdd(R(f.w[k]), RMul(R(2 * f.q), x[b][1]))
            ELSE R(f.w[k])]]

\* lines 60 / 98: x_hat = x_real + alpha * (x_real - x_fake), alpha of shape [B, 1, ...]
XHat(x_real, x_fake, alpha) ==
    [b \in 1..Len(x_real) |->
        [k \in 1..Len(x_real[b]) |->
            RAdd(x_real[b][k], RMul(alpha[b], RSub(x_real[b][k], x_fake[b][k])))]]

\* lines 64-66 / 105-107: per-example L2 norm of the gradient, then the mean
\* squared deviation of the norm from 1
GradientPenalty(grad) ==
    LET grad_norm == [b \in 1..Len(grad) |->
                         RSqrt(RSum([k \in 1..Len(grad[b]) |-> RSquare(grad[b][k])]))]
    IN  RMean([b \in 1..Len(grad) |-> RSquare(RSub(grad_norm[b], R(1)))])

\* variant: the generator loss carries the penalty term as well
wgan_gp_loss_GenPenalised(f, x_real, x_fake, lambda_gp, alpha) ==
    LET disc_real_output == RMean(Critic(f, x_real, x_real))
        disc_fake_output == RMean(Critic(f, x_fake, x_real))
        x_hat == XHat(x_real, x_fake, alpha)
        gp == GradientPenalty(GradCritic(f, x_hat, x_real))
        disc_loss == RAdd(RSub(disc_fake_output, disc_real_output), RMul(R(lambda_gp), gp))
        gen_loss == RAdd(RNeg(disc_fake_output), RMul(R(lambda_gp), gp))
    IN  <<gen_loss, disc_loss, gp>>

\* variant: the penalty is the mean deviation of the norm from 1, not squared
wgan_gp_loss_NoSquare(f, x_real, x_fake, lambda_gp, alpha) ==
    LET disc_real_output == RMean(Critic(f, x_real, x_real))
        disc_fake_output == RMean(Critic(f, x_fake, x_real))
        x_hat == XHat(x_real, x_fake, alpha)
        grad == GradCritic(f, x_hat, x_real)
        grad_norm == [b \in 1..Len(grad) |->
                         RSqrt(RSum([k \in 1..Len(grad[b]) |-> RSquare(grad[b][k])]))]
        gp == RMean([b \in 1..Len(grad) |-> RSub(grad_norm[b], R(1))])
        disc_loss == RAdd(RSub(disc_fake_output, disc_real_output), RMul(R(lambda_gp), gp))
        gen_loss == RNeg(disc_fake_output)
    IN  <<gen_loss, disc_loss, gp>>

\* lines 42-73; alpha is the draw of tf.random.uniform; the value returned
\* is the tuple (gen_loss, disc_loss, gp)
wgan_gp_loss(f, x_real, x_fake, lambda_gp, alpha) ==
    LET disc_real_output == RMean(Critic(f, x_real, x_real))
        disc_fake_output == RMean(Critic(f, x_fake, x_real))
        x_hat == XHat(x_real, x_fake, alpha)
        gp == GradientPenalty(GradCritic(f, x_hat, x_real))
        disc_loss == RAdd(RSub(disc_fake_output, disc_real_output), RMul(R(lambda_gp), gp))
        gen_loss == RNeg(disc_fake_output)
    IN  <<gen_loss, disc_loss, gp>>

\* lines 76-114; weight = NoCond stands for weight=None
wgan_gp_loss_progressive_gan(f, x_real, x_fake, lambda_gp, weight, alpha) ==
    LET disc_real_output == RMean(Critic(f, x_real, weight))
        disc_fake_output == RMean(Critic(f, x_fake, weight))
        x_hat == XHat(x_real, x_fake, alpha)
        gp == GradientPenalty(GradCritic(f, x_hat, weight))
        disc_loss == RAdd(RSub(disc_fake_output, disc_real_output), RMul(R(lambda_gp), gp))
        gen_loss == RNeg(disc_fake_output)
    IN  <<gen_loss, disc_loss, gp>>

\* lines 30-39: the three returned values summed over the (real, fake) pairs;
\* alphas[t] is the draw of the t-th call
RECURSIVE WganLongFrom(_, _, _, _, _, _, _)
WganLongFrom(t, n, discriminator, imgs, generated_imgs, lambda_gp, alphas) ==
    IF t > n THEN <<R(0), R(0), R(0)>>
    ELSE LET inc == wgan_gp_loss(discriminator, imgs[t], generated_imgs[t], lambda_gp, alphas[t])
             rest == WganLongFrom(t + 1, n, discriminator, imgs, generated_imgs, lambda_gp, alphas)
         IN  <<RAdd(inc[1], rest[1]), RAdd(inc[2], rest[2]), RAdd(inc[3], rest[3])>>

wgan_gp_loss_longitudinal(discriminator, imgs, generated_imgs, lambda_gp, alphas) ==
    WganLongFrom(1, ZipLen(imgs, generated_imgs), discriminator, imgs,
                 generated_imgs, lambda_gp, alphas)

\* lines 17-18: mean over all elements of the squared difference
l2_loss(target_y, predicted_y) ==
    LET a == Flatten(target_y)
        b == Flatten(predicted_y)
    IN  RMean([j \in 1..Len(a) |-> RSquare(RSub(a[j], b[j]))])

\* variant: the aggregate is the average of the per-timepoint losses
l2_loss_longitudinal_Average(imgs, generated_imgs, index) ==
    LET n == ZipLen(generated_imgs, imgs)
        losses == [t \in 1..n |-> l2_loss(generated_imgs[t], imgs[t])]
    IN  <<RDiv(RSum(losses), R(n)), losses[index + 1]>>

\* lines 21-27; index counts from 0
l2_loss_longitudinal(imgs, generated_imgs, index) ==
    LET n == ZipLen(generated_imgs, imgs)
        losses == [t \in 1..n |-> l2_loss(generated_imgs[t], imgs[t])]
        total_loss == RSum(losses)
    IN  <<total_loss, losses[index + 1]>>

\* tf.image.ssim on one window covering the image, one value per example:
\* luminance term times contrast-structure term
ssim(img1, img2, max_val) ==
    LET c1 == RSquare(RDiv(R(max_val), R(100)))
        c2 == RSquare(RDiv(R(3 * max_val), R(100)))
    IN  [b \in 1..Len(img1) |->
            LET x == img1[b]
                y == img2[b]
                mx == RMean(x)
                my == RMean(y)
                exx == RMean([k \in 1..Len(x) |-> RSquare(x[k])])
                eyy == RMean([k \in 1..Len(x) |-> RSquare(y[k])])
                exy == RMean([k \in 1..Len(x) |-> RMul(x[k], y[k])])
                lum == RDiv(RAdd(RMul(R(2), RMul(mx, my)), c1),
                            RAdd(RAdd(RSquare(mx), RSquare(my)), c1))
                cs == RDiv(RAdd(RMul(R(2), RSub(exy, RMul(mx, my))), c2),
                           RAdd(RSub(RSub(RAdd(exx, eyy), RSquare(mx)), RSquare(my)), c2))
            IN  RMul(lum, cs)]

\* lines 4-5
ssim_loss(target_img, predicted_img, max_val) ==
    RNeg(RMean(ssim(target_img, predicted_img, max_val)))

\* lines 8-14; index counts from 0
ssim_loss_longitudinal(target_img, predicted_img, max_val, index) ==
    LET n == ZipLen(target_img, predicted_img)
        losses == [t \in 1..n |-> ssim_loss(target_img[t], predicted_img[t], max_val)]
        total_loss == RSum(losses)
    IN  <<total_loss, losses[index + 1]>>

\* epsilon = 1e-3
Epsilon == <<1, 1000>>

\* tf.math.log is kept symbolic.  A value that contains logarithms is a record
\* [logs, rat] standing for  rat + (1/n) * (ln logs[1] + ... + ln logs[n]),
\* n = Len(logs), with rational rat and rational arguments logs[j] > 0.
\* ln is strictly increasing with ln 1 = 0, and ln of a rational other than 1
\* is irrational, so such a value is 0 exactly when rat = 0 and the product
\* of the arguments is 1.
RECURSIVE RProd(_)
RProd(s) == IF Len(s) = 0 THEN R(1) ELSE RMul(s[1], RProd(Tail(s)))

\* sign of ln logs[1] + ... + ln logs[n]
LogSumSign(logs) ==
    IF \A j \in 1..Len(logs) : logs[j] = R(1) THEN 0
    ELSE IF \A j \in 1..Len(logs) : RLe(logs[j], R(1)) THEN -1
    ELSE IF \A j \in 1..Len(logs) : RLe(R(1), logs[j]) THEN 1
    ELSE LET p == RProd(logs)
         IN  IF p = R(1) THEN 0 ELSE IF RLe(p, R(1)) THEN -1 ELSE 1

IsZeroLogValue(v) == v.rat = R(0) /\ LogSumSign(v.logs) = 0

RAbs(a) == <<Abs(a[1]), a[2]>>

\* variant: no epsilon inside the logarithm
vae_loss_NoEpsilon(x_real, x_fake, latent_mean, latent_std, normal_std) ==
    LET m == Flatten(latent_mean)
        s == Flatten(latent_std)
        ns == R(normal_std)
        logs == [j \in 1..Len(s) |-> RDiv(ns, RAbs(s[j]))]
        quad == [j \in 1..Len(s) |->
                    RDiv(RSub(RAdd(RSquare(s[j]), RSquare(m[j])), RSquare(ns)),
                         RMul(R(2), RSquare(ns)))]
        kl_loss == [logs |-> logs, rat |-> RMean(quad)]
        reconst_loss == l2_loss(x_real, x_fake)
        total_loss == [logs |-> logs, rat |-> RAdd(reconst_loss, kl_loss.rat)]
    IN  <<total_loss, reconst_loss, kl_loss>>

\* lines 117-147: the mean over all latent elements of
\* log(normal_std / (|latent_std| + epsilon))
\*   + (latent_std^2 + latent_mean^2 - normal_std^2) / (2 * normal_std^2),
\* the reconstruction MSE, and their sum
vae_loss(x_real, x_fake, latent_mean, latent_std, normal_std) ==
    LET m == Flatten(latent_mean)
        s == Flatten(latent_std)
        ns == R(normal_std)
        logs == [j \in 1..Len(s) |-> RDiv(ns, RAdd(RAbs(s[j]), Epsilon))]
        quad == [j \in 1..Len(s) |->
                    RDiv(RSub(RAdd(RSquare(s[j]), RSquare(m[j])), RSquare(ns)),
                         RMul(R(2), RSquare(ns)))]
        kl_loss == [logs |-> logs, rat |-> RMean(quad)]
        reconst_loss == l2_loss(x_real, x_fake)
        total_loss == [logs |-> logs, rat |-> RAdd(reconst_loss, kl_loss.rat)]
    IN  <<total_loss, reconst_loss, kl_loss>>

\* ---- inputs of the loss calls
\* one example: an image of two pixels
ExampleSeq == <<<<0, 0>>, <<1, 2>>, <<2, 1>>>>

Examples == {ExampleSeq[j] : j \in 1..Len(ExampleSeq)}

\* batches whose examples are all the same image
UniformBatches == {[i \in 1..BatchSize |-> RVec(e)] : e \in Examples}

\* the batch that cycles through the images
MixedBatch == [i \in 1..BatchSize |-> RVec(ExampleSeq[((i - 1) % Len(ExampleSeq)) + 1])]

SomeBatches == UniformBatches \cup {MixedBatch}

\* critics whose gradient norms are rational
Critics == {[w |-> <<0, 0>>, q |-> 0, v |-> 1],
            [w |-> <<1, 0>>, q |-> 0, v |-> 0],
            [w |-> <<3, 4>>, q |-> 0, v |-> -1],
            [w |-> <<1, 0>>, q |-> 1, v |-> 0],
            [w |-> <<-1, 0>>, q |-> -1, v |-> 2]}

Lambdas == {0, 10}

\* draws of tf.random.uniform(minval=0.0, maxval=1.0)
AlphaValues == {<<0, 1>>, <<1, 2>>}

Alphas == [1..BatchSize -> AlphaValues]

UniformAlphas == {[i \in 1..BatchSize |-> a] : a \in AlphaValues}

\* conditioning input of the progressive critic, or None
Weights == {NoCond, [i \in 1..BatchSize |-> <<R(1)>>]}

MaxVals == {100, 200}

Indexes == {0, 1, 2}

Sequences3(S) == {<<a, b, c>> : a \in S, b \in S, c \in S}

\* three-timepoint sequences whose first and last scan are the same image
Returning3(S) == {<<a, b, a>> : a \in S, b \in S}

\* three-timepoint sequences of one unchanging scan
Constant3(S) == {<<a, a, a>> : a \in S}

DefaultArgs ==
    [kind |-> "none", f |-> [w |-> <<0, 0>>, q |-> 0, v |-> 0],
     x_real |-> <<>>, x_fake |-> <<>>, lambda_gp |-> 0, alpha |-> <<>>,
     weight |-> NoCond, imgs |-> <<>>, generated_imgs |-> <<>>,
     alphas |-> <<>>, index |-> 1, max_val |-> 100,
     latent_mean |-> <<>>, latent_std |-> <<>>, normal_std |-> 1]

PairArgs ==
    {[DefaultArgs EXCEPT !.kind = "pair", !.f = f, !.x_real = xr, !.x_fake = xf,
                         !.lambda_gp = l, !.alpha = a, !.weight = w] :
        f \in Critics, xr \in UniformBatches, xf \in SomeBatches, l \in Lambdas,
        a \in Alphas, w \in Weights}

WganSeqArgs ==
    {[DefaultArgs EXCEPT !.kind = "wgan_seq", !.f = f, !.imgs = xs,
                         !.generated_imgs = ys, !.lambda_gp = l, !.alphas = as] :
        f \in Critics, xs \in Returning3(UniformBatches),
        ys \in Constant3(SomeBatches), l \in Lambdas,
        as \in {<<a, a, a>> : a \in UniformAlphas}}

ReconSeqArgs ==
    {[DefaultArgs EXCEPT !.kind = "recon_seq", !.imgs = xs, !.generated_imgs = ys,
                         !.index = i, !.max_val = m] :
        xs \in Constant3(UniformBatches), ys \in Sequences3(SomeBatches),
        i \in Indexes, m \in MaxVals}

\* encoder statistics of one example: (mean, std) of its one latent element
LatentStats == {<<0, 1>>, <<0, 2>>, <<1, 1>>, <<0, 0>>, <<-1, -2>>}

NormalStds == {1, 2}

VaeArgs ==
    {[DefaultArgs EXCEPT !.kind = "vae", !.x_real = xr, !.x_fake = xf,
                         !.latent_mean = [i \in 1..BatchSize |-> <<R(st[i][1])>>],
                         !.latent_std = [i \in 1..BatchSize |-> <<R(st[i][2])>>],
                         !.normal_std = ns] :
        xr \in UniformBatches, xf \in SomeBatches,
        st \in [1..BatchSize -> LatentStats], ns \in NormalStds}

InitLoss ==
    /\ TrainIdle
    /\ op = "idle"
    /\ args \in PairArgs \cup WganSeqArgs \cup ReconSeqArgs \cup VaeArgs
    /\ result = <<>>

WganCall ==
    /\ op = "idle"
    /\ args.kind = "pair"
    /\ result' = wgan_gp_loss(args.f, args.x_real, args.x_fake, args.lambda_gp, args.alpha)
    /\ op' = "wgan"
    /\ UNCHANGED args
    /\ UNCHANGED trainVars

WganProgCall ==
    /\ op = "idle"
    /\ args.kind = "pair"
    /\ result' = wgan_gp_loss_progressive_gan(args.f, args.x_real, args.x_fake,
                                              args.lambda_gp, args.weight, args.alpha)
    /\ op' = "wgan_prog"
    /\ UNCHANGED args
    /\ UNCHANGED trainVars

WganLongCall ==
    /\ op = "idle"
    /\ args.kind = "wgan_seq"
    /\ result' = wgan_gp_loss_longitudinal(args.f, args.imgs, args.generated_imgs,
                                           args.lambda_gp, args.alphas)
    /\ op' = "wgan_long"
    /\ UNCHANGED args
    /\ UNCHANGED trainVars

L2LongCall ==
    /\ op = "idle"
    /\ args.kind = "recon_seq"
    /\ result' = l2_loss_longitudinal(args.imgs, args.generated_imgs, args.index)
    /\ op' = "l2_long"
    /\ UNCHANGED args
    /\ UNCHANGED trainVars

SsimLongCall ==
    /\ op = "idle"
    /\ args.kind = "recon_seq"
    /\ result' = ssim_loss_longitudinal(args.imgs, args.generated_imgs, args.max_val, args.index)
    /\ op' = "ssim_long"
    /\ UNCHANGED args
    /\ UNCHANGED trainVars

VaeCall ==
    /\ op = "idle"
    /\ args.kind = "vae"
    /\ result' = vae_loss(args.x_real, args.x_fake, args.latent_mean, args.latent_std,
                          args.normal_std)
    /\ op' = "vae"
    /\ UNCHANGED args
    /\ UNCHANGED trainVars

NextLoss ==
    \/ WganCall
    \/ WganProgCall
    \/ WganLongCall
    \/ L2LongCall
    \/ SsimLongCall
    \/ VaeCall

SpecLoss == InitLoss /\ [][NextLoss]_vars

\* ------------------------------------------------------------------------
\* Properties of the loss functions
\* ------------------------------------------------------------------------
RECURSIVE ISum(_)
ISum(s) == IF Len(s) = 0 THEN 0 ELSE s[1] + ISum(Tail(s))

\* sum over the batch of the critic's scores, on the integer inputs
ScoreSum(f, x, c) ==
    ISum([b \in 1..Len(x) |->
             ISum([k \in 1..Len(x[b]) |-> f.w[k] * x[b][k][1]])
             + f.q * x[b][1][1] * x[b][1][1]
             + (IF c = NoCond THEN 0 ELSE f.v * c[b][1][1])])

\* sum over all pixels of one timepoint of the squared reconstruction error
SqErr(t) ==
    ISum([b \in 1..Len(args.imgs[t]) |->
             ISum([k \in 1..Len(args.imgs[t][b]) |->
                      (args.imgs[t][b][k][1] - args.generated_imgs[t][b][k][1])
                      * (args.imgs[t][b][k][1] - args.generated_imgs[t][b][k][1])])])

\* C8: the second value wgan_gp_loss computes, disc_loss, is
\* mean(f(fake)) - mean(f(real)) + lambda_gp * gp, and the first, gen_loss,
\* is -mean(f(fake)), whatever lambda_gp is.
C8_WganLosses ==
    op \in {"wgan", "wgan_prog"} =>
        LET cond == IF op = "wgan" THEN args.x_real ELSE args.weight
            fake == ScoreSum(args.f, args.x_fake, cond)
            real == ScoreSum(args.f, args.x_real, cond)
            gen_loss == result[1]
            unpenalised == RSub(result[2], RMul(R(args.lambda_gp), result[3]))
        IN  /\ gen_loss[2] > 0
            /\ gen_loss[1] * BatchSize = -(gen_loss[2] * fake)
            /\ unpenalised[2] > 0
            /\ unpenalised[1] * BatchSize = unpenalised[2] * (fake - real)
            /\ \A l \in Lambdas :
                   gen_loss = (IF op = "wgan"
                               THEN wgan_gp_loss(args.f, args.x_real, args.x_fake, l, args.alpha)
                               ELSE wgan_gp_loss_progressive_gan(args.f, args.x_real, args.x_fake,
                                                                 l, args.weight, args.alpha))[1]

C8_Witness ==
    /\ op = "wgan"
    /\ args.lambda_gp = 10
    /\ result[3] # R(0)
    /\ result[1] # R(0)
    /\ result[2] # RNeg(result[1])
    /\ args.x_fake = MixedBatch

\* C9: the penalty wgan_gp_loss returns, and the sum of penalties
\* wgan_gp_loss_longitudinal returns, is a finite value >= 0.
C9_PenaltyNonNegative ==
    op \in {"wgan", "wgan_long"} => (result[3][2] > 0 /\ result[3][1] >= 0)

C9_Witness ==
    /\ op = "wgan"
    /\ args.f.w = <<0, 0>>
    /\ args.f.q = 0
    /\ result[3] = R(1)

AtPrior ==
    /\ \A i \in 1..BatchSize : \A k \in 1..Len(args.latent_mean[i]) :
           args.latent_mean[i][k] = R(0)
    /\ \A i \in 1..BatchSize : \A k \in 1..Len(args.latent_std[i]) :
           args.latent_std[i][k] = R(args.normal_std)

\* C11 (as stated): when latent_mean = 0 and latent_std = normal_std in every
\* element, the KL term vae_loss returns is 0 and total_loss equals the
\* reconstruction MSE.
C11_Original ==
    (op = "vae" /\ AtPrior) =>
        /\ IsZeroLogValue(result[3])
        /\ result[1].rat = result[2]
        /\ LogSumSign(result[1].logs) = 0

\* C11 (amended): in that case the rational part of the KL term is 0 and what
\* remains is the mean of log(normal_std / (normal_std + epsilon)) over the
\* latent elements, a value below 0; total_loss is the reconstruction MSE
\* plus that same negative term.
C11_KLAtPrior ==
    (op = "vae" /\ AtPrior) =>
        LET kl == result[3]
            n == args.normal_std
        IN  /\ kl.rat = R(0)
            /\ Len(kl.logs) = BatchSize
            /\ \A j \in 1..Len(kl.logs) :
                   /\ kl.logs[j][2] > 0
                   /\ kl.logs[j][1] * (1000 * n + 1) = kl.logs[j][2] * (1000 * n)
            /\ LogSumSign(kl.logs) = -1
            /\ result[1] = [logs |-> kl.logs, rat |-> result[2]]

C11_Witness ==
    /\ op = "vae"
    /\ AtPrior
    /\ args.normal_std = 2
    /\ result[2] # R(0)
    /\ result[3].logs[1] = <<2000, 2001>>

\* C12: the first value wgan_gp_loss and wgan_gp_loss_progressive_gan return
\* is the discriminator loss, mean(f(fake)) - mean(f(real)) + lambda_gp * gp,
\* and the second is the generator loss, -mean(f(fake)), as the docstrings
\* state.
C12_DiscLossFirst ==
    op \in {"wgan", "wgan_prog"} =>
        LET cond == IF op = "wgan" THEN args.x_real ELSE args.weight
            fake == ScoreSum(args.f, args.x_fake, cond)
            real == ScoreSum(args.f, args.x_real, cond)
            first == RSub(result[1], RMul(R(args.lambda_gp), result[3]))
            second == result[2]
        IN  /\ first[2] > 0
            /\ first[1] * BatchSize = first[2] * (fake - real)
            /\ second[2] > 0
            /\ second[1] * BatchSize = -(second[2] * fake)

RMin(a, b) == IF RLe(a, b) THEN a ELSE b
RMax(a, b) == IF RLe(a, b) THEN b ELSE a

\* C17: for the alpha drawn in [0, 1], every coordinate of the point x_hat at
\* which the penalty's gradient is taken lies between the corresponding
\* coordinates of x_real and x_fake.
C17_XHatInterpolates ==
    op \in {"wgan", "wgan_prog"} =>
        LET x_hat == XHat(args.x_real, args.x_fake, args.alpha)
        IN  \A b \in 1..BatchSize : \A k \in 1..Len(args.x_real[b]) :
                /\ RLe(RMin(args.x_real[b][k], args.x_fake[b][k]), x_hat[b][k])
                /\ RLe(x_hat[b][k], RMax(args.x_real[b][k], args.x_fake[b][k]))

====
